---- MODULE Spec2Model ----
(***************************************************************************)
(* Model of github.com/frizinak/webdl, package web: the crawl orchestrator *)
(* Web.Recurse (web/web.go) with its workers, enqueue goroutines and       *)
(* progress reporting.                                                     *)
(***************************************************************************)
EXTENDS Integers, Sequences, FiniteSets, Bags, TLC

(***************************************************************************)
(* Bounds of the model.                                                    *)
(***************************************************************************)
\* Longest reference string, in tokens, HREF is called with.
MaxRefLen == 3
\* Characters of a raw selector string.
MaxSelLen == 4
\* Print clauses of a page, and elements one clause selects.
MaxClauses == 2
MaxMatches == 3
\* The unsigned 64 bit counters are modelled modulo CounterMod.
CounterMod == 65536

(***************************************************************************)
(* Inputs: seed strings, the pages of the crawled site, the configuration. *)
(***************************************************************************)
\* RecursiveConfig.ProgressInterval, in clock ticks.
ProgressInterval == 1

\* time.Since(sinceLast) is only compared with ProgressInterval: the
\* elapsed time is kept up to Elapsed, which stands for every longer time.
Elapsed == ProgressInterval + 1

\* A seed string url.Parse rejects (invalid percent escape).
Malformed == "%zz"

\* url.Parse followed by URL.String(): the scheme is lower-cased, so two
\* different seed strings can serialize to the same URL string.
UrlString(uri) ==
    CASE uri = "A:" -> "a:"
      [] uri = "B:" -> "b:"
      [] OTHER -> uri

UrlParseFails(uri) == uri = Malformed

NoPage == [Links |-> <<>>, Downloads |-> <<>>, Prints |-> 0]

\* a links to c and b lists c as a download: c is discovered from two
\* parents, in both roles.
SiteOverlap ==
    [x \in {"a:", "b:", "c:"} |->
        CASE x = "a:" -> [Links |-> <<"c:">>, Downloads |-> <<>>, Prints |-> 1]
          [] x = "b:" -> [Links |-> <<>>, Downloads |-> <<"c:">>, Prints |-> 0]
          [] OTHER -> NoPage]

\* a links to itself.
SiteCycle ==
    [x \in {"a:", "b:", "c:"} |->
        CASE x = "a:" -> [Links |-> <<"a:">>, Downloads |-> <<>>, Prints |-> 2]
          [] OTHER -> NoPage]

\* a lists two downloads and one link.
SiteDownloads ==
    [x \in {"a:", "b:", "c:"} |->
        CASE x = "a:" -> [Links |-> <<"b:">>, Downloads |-> <<"b:", "c:">>, Prints |-> 0]
          [] OTHER -> NoPage]

\* The (Config, RecursiveConfig) values explored, each with the site it is
\* run on.  Download, DownloadCallback and PrintCallback say whether the
\* callback is non-nil.
Scenarios ==
    { [Concurrency |-> 2, URLs |-> <<"a:", "b:">>, Site |-> SiteOverlap,
       Download |-> TRUE, DownloadCallback |-> TRUE, PrintCallback |-> TRUE,
       ReverseLinks |-> FALSE, ReverseDownloads |-> FALSE],
      [Concurrency |-> 2, URLs |-> <<"a:", "A:">>, Site |-> SiteCycle,
       Download |-> TRUE, DownloadCallback |-> TRUE, PrintCallback |-> TRUE,
       ReverseLinks |-> TRUE, ReverseDownloads |-> FALSE],
      [Concurrency |-> 1, URLs |-> <<"a:", "b:", "a:">>, Site |-> SiteDownloads,
       Download |-> TRUE, DownloadCallback |-> TRUE, PrintCallback |-> FALSE,
       ReverseLinks |-> FALSE, ReverseDownloads |-> TRUE],
      [Concurrency |-> 2, URLs |-> <<"a:">>, Site |-> SiteDownloads,
       Download |-> FALSE, DownloadCallback |-> TRUE, PrintCallback |-> TRUE,
       ReverseLinks |-> FALSE, ReverseDownloads |-> FALSE],
      [Concurrency |-> 1, URLs |-> <<"b:">>, Site |-> SiteOverlap,
       Download |-> TRUE, DownloadCallback |-> FALSE, PrintCallback |-> TRUE,
       ReverseLinks |-> FALSE, ReverseDownloads |-> FALSE],
      [Concurrency |-> 0, URLs |-> <<>>, Site |-> SiteOverlap,
       Download |-> TRUE, DownloadCallback |-> TRUE, PrintCallback |-> TRUE,
       ReverseLinks |-> FALSE, ReverseDownloads |-> FALSE],
      [Concurrency |-> 2, URLs |-> <<Malformed, "a:">>, Site |-> SiteOverlap,
       Download |-> TRUE, DownloadCallback |-> TRUE, PrintCallback |-> TRUE,
       ReverseLinks |-> FALSE, ReverseDownloads |-> FALSE],
      [Concurrency |-> 1, URLs |-> <<"a:", Malformed>>, Site |-> SiteOverlap,
       Download |-> TRUE, DownloadCallback |-> TRUE, PrintCallback |-> TRUE,
       ReverseLinks |-> FALSE, ReverseDownloads |-> FALSE] }

\* Config.Concurrency after New, and `workers` in Recurse: 8 when not positive.
DefaultConcurrency == 8
\* The configured value is used as it is.
NewConcurrencyUnchecked(n) == n
NewConcurrency(n) == IF n <= 0 THEN DefaultConcurrency ELSE n

(***************************************************************************)
(* State of one call of Recurse.                                           *)
(***************************************************************************)
VARIABLES
    c,            \* the Config and RecursiveConfig, and the site behind the URLs
    workers,      \* w.c.Concurrency as read by Recurse
    ctxErr,       \* ctx.Err(): "nil" until the context is cancelled
    mainpc,       \* position of the goroutine that called Recurse
    seedIx,       \* index of the next seed the seeding loop sends
    cnt,          \* workers the final loop still waits for
    ret,          \* value returned by Recurse
    ch,           \* the task channel, buffered to `workers`
    chDone,       \* number of values buffered in chDone
    done,         \* the visited map
    tasks,        \* outstanding-task counter
    dlCount,      \* progress: tasks pulled
    dlTotal,      \* progress: tasks announced
    gerr,         \* recorded run error
    sinceLast,    \* time.Since(sinceLast), at most Elapsed
    pc,           \* position of each worker goroutine
    u,            \* the task each worker holds
    err,          \* the error of the task each worker holds
    cur,          \* dlCount as each worker read it for its call of c.Progress
    senders,      \* enqueue goroutines: bag of the task lists left to send
    fetched,      \* history: GETs issued per URL string
    predCalls,    \* history: calls of c.Download per URL string
    cbCalls,      \* history: calls of c.DownloadCallback per URL string
    printCalls,   \* history: calls of c.PrintCallback
    lastCall,     \* history: the most recent call of c.Progress
    sinceNil,     \* history: time since the last rate-limited call of c.Progress
    emitted,      \* history: per worker, calls of c.Progress with its task's error
    lateTask,     \* history: per worker, its task was pulled after cancellation
    anyFailed,    \* history: some task ended in an error
    found,        \* history: links and downloads of the pages extracted so far
    pulled,       \* history: URL strings of the tasks pulled before cancellation
    hrefCall,     \* a call of HREF: its arguments and, once made, its result
    selCall,      \* a call of NewSelectors: its argument and, once made, its result
    pageCall      \* a call of Web.page: what the print clauses match, and p.Prints

vars == << c, workers, ctxErr, mainpc, seedIx, cnt, ret, ch, chDone, done,
           tasks, dlCount, dlTotal, gerr, sinceLast, pc, u, err, cur, senders,
           fetched, predCalls, cbCalls, printCalls, lastCall,
           sinceNil, emitted, lateTask, anyFailed, found, pulled, hrefCall,
           selCall, pageCall >>

recurseVars == << c, workers, ctxErr, mainpc, seedIx, cnt, ret, ch, chDone, done,
                  tasks, dlCount, dlTotal, gerr, sinceLast, pc, u, err, cur,
                  senders, fetched, predCalls, cbCalls, printCalls, lastCall, sinceNil,
                  emitted, lateTask, anyFailed, found, pulled >>

callVars == << hrefCall, selCall, pageCall >>
mainVars == << mainpc, seedIx, cnt, ret >>
histVars == << fetched, predCalls, cbCalls, printCalls, lastCall,
               sinceNil, emitted, lateTask, anyFailed >>

URLStrings == {"a:", "b:", "c:"}
Workers == 1..workers
NoTask == [URL |-> "", Download |-> FALSE, Index |-> 0, Ref |-> <<>>]
NoCall == [err |-> "none", current |-> 0, total |-> 0, gap |-> Elapsed, final |-> FALSE]

\* No call of HREF is modelled in a run of Recurse.
NoHREF == [page |-> <<>>, href |-> <<>>, called |-> FALSE, err |-> FALSE,
           out |-> <<>>]

\* No call of NewSelectors and none of Web.page is modelled there either.
NoSelCall == [s |-> <<>>, called |-> FALSE, out |-> <<>>]
NoPageCall == [matches |-> <<>>, called |-> FALSE, Prints |-> <<>>]

\* The state of Recurse when it is called.
InitRecurse ==
    /\ c \in Scenarios
    /\ workers = NewConcurrency(c.Concurrency)
    /\ ctxErr = "nil"
    /\ mainpc = "start"
    /\ seedIx = 1
    /\ cnt = 0
    /\ ret = "none"
    /\ ch = <<>>
    /\ chDone = 0
    /\ done = {}
    /\ tasks = 0
    /\ dlCount = 0
    /\ dlTotal = 0
    /\ gerr = "nil"
    /\ sinceLast = Elapsed
    /\ pc = [w \in Workers |-> "off"]
    /\ u = [w \in Workers |-> NoTask]
    /\ err = [w \in Workers |-> "nil"]
    /\ cur = [w \in Workers |-> 0]
    /\ senders = EmptyBag
    /\ fetched = [x \in URLStrings |-> 0]
    /\ predCalls = [x \in URLStrings |-> 0]
    /\ cbCalls = [x \in URLStrings |-> 0]
    /\ printCalls = 0
    /\ lastCall = NoCall
    /\ sinceNil = Elapsed
    /\ emitted = [w \in Workers |-> 0]
    /\ lateTask = [w \in Workers |-> FALSE]
    /\ anyFailed = FALSE
    /\ found = 0
    /\ pulled = {}

Init ==
    /\ InitRecurse
    /\ hrefCall = NoHREF
    /\ selCall = NoSelCall
    /\ pageCall = NoPageCall

(***************************************************************************)
(* Helpers of Recurse.                                                     *)
(***************************************************************************)
\* atomic.AddUint64(&x, n)
AddUint64(x, n) == (x + n) % CounterMod

\* Mutants of doDone: the decrement is lost, or applied twice.
doDoneLost(x) == x
doDoneTwice(x) == AddUint64(x, CounterMod - 2)

\* doDone: atomic.AddUint64(&tasks, ^uint64(0))
doDone(x) == AddUint64(x, CounterMod - 1)

\* errors.As(err, &context.Canceled): the target is a *error, to which every
\* non-nil error is assignable, so it reports true for every non-nil err
\* (and stores err in the package variable context.Canceled).
ErrorsAsCanceled(e) == e # "nil"

\* The forced report is rate-limited like any other.
ProgressEmitsUnforced(e, force, since) ==
    /\ e = "nil"
    /\ since > ProgressInterval

\* The condition under which progress(err, force) calls c.Progress.
ProgressEmits(e, force, since) ==
    /\ ~ErrorsAsCanceled(e)
    /\ (force \/ e # "nil" \/ since > ProgressInterval)

\* The visited check under the read lock: _, ok := done[url]
Visited(url) == url \in done

\* Mutant of VisitedLocked: no second check under the write lock.
VisitedLockedNever(url) == FALSE

\* The visited check repeated under the write lock.
VisitedLocked(url) == url \in done

\* Mutant of Cancelled: the worker never looks at the context.
CancelledNever(e) == FALSE

\* err := ctx.Err(); err != nil
Cancelled(e) == e # "nil"

\* Mutant of Discovered: the downloads are not counted.
DiscoveredLinksOnly(p) == Len(p.Links)
DiscoveredDownloadsOnly(p) == Len(p.Downloads)

\* Number of children a page announces: len(p.Links)+len(p.Downloads)
Discovered(p) == Len(p.Links) + Len(p.Downloads)

\* Mutant of SeedsError: only the first seed is validated.
SeedsErrorFirstOnly(urls) == Len(urls) > 0 /\ UrlParseFails(urls[1])

\* The seed loop: some seed fails to parse.
SeedsError(urls) == \E i \in 1..Len(urls) : UrlParseFails(urls[i])

\* The reversal options are ignored.
ChildIndexForward(i, n, reverse) == i

\* Lines 182-185 and 198-201: Index given to the i-th (from 0) of n children.
ChildIndex(i, n, reverse) == IF reverse THEN n - i - 1 ELSE i

\* The tasks the enqueue goroutine of page task t sends, in order.
Children(t) ==
    LET p == c.Site[t.URL]
        nd == Len(p.Downloads)
        nl == Len(p.Links)
        ref == << [URL |-> t.URL, Index |-> t.Index] >>
    IN  [i \in 1..nd |->
            [URL |-> p.Downloads[i], Download |-> TRUE,
             Index |-> ChildIndex(i - 1, nd, c.ReverseDownloads), Ref |-> ref]]
        \o
        [i \in 1..nl |->
            [URL |-> p.Links[i], Download |-> FALSE,
             Index |-> ChildIndex(i - 1, nl, c.ReverseLinks), Ref |-> ref]]

SeedTask(uri) == [URL |-> UrlString(uri), Download |-> FALSE, Index |-> 0, Ref |-> <<>>]

\* A call c.Progress(e, dlCount, dlTotal) followed by lastProgress = time.Now().
\* gap records the time since the previous rate-limited call (nil error, not
\* the final report); it is Elapsed when there was none.
CallProgress(e, current, final) ==
    /\ lastCall' = [err |-> e, current |-> current, total |-> dlTotal,
                    gap |-> sinceNil, final |-> final]
    /\ sinceNil' = IF e = "nil" /\ ~final THEN 0 ELSE sinceNil
    /\ sinceLast' = 0

\* return gerr, running the deferred progress(nil, true).
Return(r) ==
    /\ mainpc' = "returned"
    /\ ret' = r
    /\ IF ProgressEmits("nil", TRUE, sinceLast)
       THEN CallProgress("nil", dlCount, TRUE)
       ELSE UNCHANGED << lastCall, sinceNil, sinceLast >>

(***************************************************************************)
(* The goroutine that called Recurse.                                      *)
(***************************************************************************)
\* Lines 85-126: parse the seeds, set up the state, start the workers.
ParseSeeds ==
    /\ mainpc = "start"
    /\ IF SeedsError(c.URLs)
       THEN /\ mainpc' = "returned"
            /\ ret' = "parseErr"
            /\ UNCHANGED << cnt, tasks, dlTotal, pc >>
       ELSE /\ mainpc' = IF Len(c.URLs) = 0 THEN "wait" ELSE "seed"
            /\ cnt' = workers
            /\ ret' = ret
            /\ tasks' = Len(c.URLs) % CounterMod
            /\ dlTotal' = Len(c.URLs) % CounterMod
            /\ pc' = [w \in Workers |-> "recv"]
    /\ UNCHANGED << c, workers, callVars, pulled, cur, found, ctxErr, seedIx, ch, chDone, done, dlCount,
                    gerr, sinceLast, u, err, senders, histVars >>

\* Lines 218-220: one send of the seeding loop.
Seed ==
    /\ mainpc = "seed"
    /\ Len(ch) < workers
    /\ ch' = Append(ch, SeedTask(c.URLs[seedIx]))
    /\ seedIx' = seedIx + 1
    /\ mainpc' = IF seedIx = Len(c.URLs) THEN "wait" ELSE "seed"
    /\ UNCHANGED << c, workers, callVars, pulled, cur, found, ctxErr, cnt, ret, chDone, done, tasks,
                    dlCount, dlTotal, gerr, sinceLast, pc, u, err, senders,
                    histVars >>

\* Lines 225-229: a worker has signalled its exit.
RecvDone ==
    /\ mainpc = "wait"
    /\ chDone > 0
    /\ chDone' = chDone - 1
    /\ cnt' = cnt - 1
    /\ IF cnt - 1 = 0
       THEN Return(gerr)
       ELSE UNCHANGED << mainpc, ret, lastCall, sinceNil, sinceLast >>
    /\ UNCHANGED << c, workers, callVars, pulled, cur, found, ctxErr, seedIx, ch, done, tasks, dlCount,
                    dlTotal, gerr, pc, u, err, senders, fetched, predCalls,
                    cbCalls, printCalls, emitted, lateTask, anyFailed >>

\* Lines 230-233: the 300ms timer fired and the counter is read.
Timer ==
    /\ mainpc = "wait"
    /\ IF tasks = 0
       THEN Return(gerr)
       ELSE UNCHANGED << mainpc, ret, lastCall, sinceNil, sinceLast >>
    /\ UNCHANGED << c, workers, callVars, pulled, cur, found, ctxErr, seedIx, cnt, ch, chDone, done,
                    tasks, dlCount, dlTotal, gerr, pc, u, err, senders, fetched,
                    predCalls, cbCalls, printCalls, emitted, lateTask, anyFailed >>

(***************************************************************************)
(* A worker goroutine, lines 125-215.                                      *)
(***************************************************************************)
\* continue: back to the receive at the top of the loop; the task is dropped.
Continue(w) ==
    /\ pc' = [pc EXCEPT ![w] = "recv"]
    /\ u' = [u EXCEPT ![w] = NoTask]

\* Line 126: for u := range ch
Pull(w) ==
    /\ pc[w] = "recv"
    /\ Len(ch) > 0
    /\ u' = [u EXCEPT ![w] = Head(ch)]
    /\ ch' = Tail(ch)
    /\ pc' = [pc EXCEPT ![w] = "check"]
    /\ err' = [err EXCEPT ![w] = "nil"]
    /\ emitted' = [emitted EXCEPT ![w] = 0]
    /\ lateTask' = [lateTask EXCEPT ![w] = ctxErr # "nil" \/ gerr # "nil"]
    /\ pulled' = IF ctxErr = "nil" THEN pulled \cup {Head(ch).URL} ELSE pulled
    /\ UNCHANGED << c, workers, callVars, cur, found, ctxErr, mainVars, chDone, done, tasks,
                    dlCount, dlTotal, gerr, sinceLast, senders, fetched,
                    predCalls, cbCalls, printCalls, lastCall, sinceNil,
                    anyFailed >>

\* Lines 127-135: the run-error and cancellation checks, then dlCount++.
Check(w) ==
    /\ pc[w] = "check"
    /\ IF gerr # "nil"
       THEN /\ pc' = [pc EXCEPT ![w] = "exit"]
            /\ UNCHANGED << gerr, dlCount >>
       ELSE IF Cancelled(ctxErr)
       THEN /\ gerr' = ctxErr
            /\ pc' = [pc EXCEPT ![w] = "exit"]
            /\ UNCHANGED dlCount
       ELSE /\ dlCount' = AddUint64(dlCount, 1)
            /\ pc' = [pc EXCEPT ![w] = "rlock"]
            /\ UNCHANGED gerr
    /\ UNCHANGED << c, workers, callVars, pulled, cur, found, ctxErr, mainVars, ch, chDone, done, tasks,
                    dlTotal, sinceLast, u, err, senders, histVars >>

\* Lines 137-143: the visited check under the read lock.
ReadCheck(w) ==
    /\ pc[w] = "rlock"
    /\ IF Visited(u[w].URL)
       THEN /\ tasks' = doDone(tasks)
            /\ Continue(w)
       ELSE /\ pc' = [pc EXCEPT ![w] = "wlock"]
            /\ UNCHANGED << tasks, u >>
    /\ UNCHANGED << c, workers, callVars, pulled, cur, found, ctxErr, mainVars, ch, chDone, done,
                    dlCount, dlTotal, gerr, sinceLast, err, senders,
                    histVars >>

\* Only page tasks are marked.
MarkPagesOnly(visited, t) == IF t.Download THEN visited ELSE visited \cup {t.URL}

\* Line 150: done[url] = struct{}{}, whatever the role of the task.
Mark(visited, t) == visited \cup {t.URL}

\* Lines 144-151: check again and mark visited under the write lock.
WriteCheck(w) ==
    /\ pc[w] = "wlock"
    /\ IF VisitedLocked(u[w].URL)
       THEN /\ tasks' = doDone(tasks)
            /\ Continue(w)
            /\ UNCHANGED done
       ELSE /\ done' = Mark(done, u[w])
            /\ pc' = [pc EXCEPT ![w] = "dispatch"]
            /\ UNCHANGED << tasks, u >>
    /\ UNCHANGED << c, workers, callVars, pulled, cur, found, ctxErr, mainVars, ch, chDone, dlCount,
                    dlTotal, gerr, sinceLast, err, senders, histVars >>

\* Only c.Download is tested before it is called.
NoDownloadPredicateOnly(cfg) == ~cfg.Download

\* Lines 154-155: c.Download == nil || c.DownloadCallback == nil
NoDownload(cfg) == ~cfg.Download \/ ~cfg.DownloadCallback

\* Lines 153-161: a download task asks c.Download and starts its GET.
StartDownload(w) ==
    /\ pc[w] = "dispatch"
    /\ u[w].Download
    /\ IF NoDownload(c)
       THEN /\ tasks' = doDone(tasks)
            /\ Continue(w)
            /\ UNCHANGED << predCalls, fetched >>
       ELSE \E wanted \in BOOLEAN :
            /\ predCalls' = [predCalls EXCEPT ![u[w].URL] = @ + 1]
            /\ IF wanted
               THEN /\ fetched' = [fetched EXCEPT ![u[w].URL] = @ + 1]
                    /\ pc' = [pc EXCEPT ![w] = "fetching"]
                    /\ UNCHANGED << tasks, u >>
               ELSE /\ tasks' = doDone(tasks)
                    /\ Continue(w)
                    /\ UNCHANGED fetched
    /\ UNCHANGED << c, workers, callVars, pulled, cur, found, ctxErr, mainVars, ch, chDone, done,
                    dlCount, dlTotal, gerr, sinceLast, err, senders,
                    cbCalls, printCalls, lastCall, sinceNil, emitted, lateTask,
                    anyFailed >>

\* Line 167 with get (lines 16-24 of the fetcher): a page task starts its GET.
StartPage(w) ==
    /\ pc[w] = "dispatch"
    /\ ~u[w].Download
    /\ fetched' = [fetched EXCEPT ![u[w].URL] = @ + 1]
    /\ pc' = [pc EXCEPT ![w] = "fetching"]
    /\ UNCHANGED << c, workers, callVars, pulled, cur, found, ctxErr, mainVars, ch, chDone, done, tasks,
                    dlCount, dlTotal, gerr, sinceLast, u, err, senders,
                    predCalls, cbCalls, printCalls, lastCall, sinceNil,
                    emitted, lateTask, anyFailed >>

\* The errors a GET can end in: a cancelled context aborts the request.
GetResults == IF ctxErr # "nil" THEN {"ctxErr", "fetchErr"} ELSE {"nil", "fetchErr"}

\* Line 161, download (fetcher lines 88-96): the GET ends; on success the
\* stream is handed to c.DownloadCallback, whose error is the task's error.
FinishDownload(w) ==
    /\ pc[w] = "fetching"
    /\ u[w].Download
    /\ \E g \in GetResults :
          IF g # "nil"
          THEN /\ err' = [err EXCEPT ![w] = g]
               /\ UNCHANGED cbCalls
          ELSE \E e \in {"nil", "cbErr"} :
               /\ err' = [err EXCEPT ![w] = e]
               /\ cbCalls' = [cbCalls EXCEPT ![u[w].URL] = @ + 1]
    /\ anyFailed' = (anyFailed \/ err'[w] # "nil")
    /\ pc' = [pc EXCEPT ![w] = "progress"]
    /\ UNCHANGED << c, workers, callVars, pulled, cur, found, ctxErr, mainVars, ch, chDone, done, tasks,
                    dlCount, dlTotal, gerr, sinceLast, u, senders, fetched,
                    predCalls, printCalls, lastCall, sinceNil, emitted,
                    lateTask >>

\* Lines 167-172 with page (fetcher lines 31-86): the page GET and the
\* extraction end.  On an error the task goes straight to progress and
\* doDone: nothing is announced or spawned.
FinishPage(w) ==
    /\ pc[w] = "fetching"
    /\ ~u[w].Download
    /\ \E g \in GetResults :
          /\ err' = [err EXCEPT ![w] = g]
          /\ pc' = [pc EXCEPT ![w] = IF g # "nil" THEN "progress" ELSE "addtasks"]
          /\ anyFailed' = (anyFailed \/ g # "nil")
          /\ found' = IF g # "nil" THEN found
                      ELSE found + Len(c.Site[u[w].URL].Links)
                                 + Len(c.Site[u[w].URL].Downloads)
    /\ UNCHANGED << c, workers, callVars, pulled, cur, ctxErr, mainVars, ch, chDone, done, tasks,
                    dlCount, dlTotal, gerr, sinceLast, u, senders, fetched,
                    predCalls, cbCalls, printCalls, lastCall, sinceNil, emitted,
                    lateTask >>

\* Line 173: the children are added to the outstanding counter.
AddTasks(w) ==
    /\ pc[w] = "addtasks"
    /\ tasks' = AddUint64(tasks, Discovered(c.Site[u[w].URL]))
    /\ pc' = [pc EXCEPT ![w] = "addtotal"]
    /\ UNCHANGED << c, workers, callVars, pulled, cur, found, ctxErr, mainVars, ch, chDone, done, dlCount,
                    dlTotal, gerr, sinceLast, u, err, senders, histVars >>

\* Line 174: the children are added to the progress total.
AddTotal(w) ==
    /\ pc[w] = "addtotal"
    /\ dlTotal' = AddUint64(dlTotal, Discovered(c.Site[u[w].URL]))
    /\ pc' = [pc EXCEPT ![w] = "spawn"]
    /\ UNCHANGED << c, workers, callVars, pulled, cur, found, ctxErr, mainVars, ch, chDone, done, tasks,
                    dlCount, gerr, sinceLast, u, err, senders, histVars >>

\* Lines 176-209: c.PrintCallback is called for a page with print rows and
\* the enqueue goroutine is started.
Spawn(w) ==
    /\ pc[w] = "spawn"
    /\ printCalls' = IF c.PrintCallback /\ c.Site[u[w].URL].Prints # 0
                     THEN printCalls + 1 ELSE printCalls
    /\ senders' = IF Len(Children(u[w])) = 0 THEN senders
                  ELSE senders (+) SetToBag({Children(u[w])})
    /\ pc' = [pc EXCEPT ![w] = "progress"]
    /\ UNCHANGED << c, workers, callVars, pulled, cur, found, ctxErr, mainVars, ch, chDone, done, tasks,
                    dlCount, dlTotal, gerr, sinceLast, u, err, fetched,
                    predCalls, cbCalls, lastCall, sinceNil, emitted, lateTask,
                    anyFailed >>

\* Lines 113-117: progress(err, false) decides whether to report.
Progress(w) ==
    /\ pc[w] = "progress"
    /\ pc' = [pc EXCEPT ![w] =
                IF ProgressEmits(err[w], FALSE, sinceLast)
                THEN "emit" ELSE "dodone"]
    /\ UNCHANGED << c, workers, callVars, pulled, cur, found, ctxErr, mainVars, ch, chDone, done, tasks,
                    dlCount, dlTotal, gerr, sinceLast, u, err, senders,
                    histVars >>

\* Line 118: the arguments of c.Progress are read in order, dlCount first;
\* the reads are not atomic, and dlTotal is read a step later.
ReadCurrent(w) ==
    /\ pc[w] = "emit"
    /\ cur' = [cur EXCEPT ![w] = dlCount]
    /\ pc' = [pc EXCEPT ![w] = "call"]
    /\ UNCHANGED << c, workers, callVars, pulled, found, ctxErr, mainVars, ch, chDone, done, tasks,
                    dlCount, dlTotal, gerr, sinceLast, u, err, senders,
                    histVars >>

\* Lines 118-119: dlTotal is read, c.Progress is called and lastProgress
\* is set.
Emit(w) ==
    /\ pc[w] = "call"
    /\ CallProgress(err[w], cur[w], FALSE)
    /\ cur' = [cur EXCEPT ![w] = 0]
    /\ emitted' = [emitted EXCEPT ![w] = IF err[w] # "nil" THEN @ + 1 ELSE @]
    /\ pc' = [pc EXCEPT ![w] = "dodone"]
    /\ UNCHANGED << c, workers, callVars, pulled, found, ctxErr, mainVars, ch, chDone, done, tasks,
                    dlCount, dlTotal, gerr, u, err, senders, fetched, predCalls,
                    cbCalls, printCalls, lateTask, anyFailed >>

\* Lines 163, 170, 212: doDone() after progress, then the next iteration.
DoDone(w) ==
    /\ pc[w] = "dodone"
    /\ tasks' = doDone(tasks)
    /\ Continue(w)
    /\ err' = [err EXCEPT ![w] = "nil"]
    /\ emitted' = [emitted EXCEPT ![w] = 0]
    /\ UNCHANGED << c, workers, callVars, pulled, cur, found, ctxErr, mainVars, ch, chDone, done,
                    dlCount, dlTotal, gerr, sinceLast, senders, fetched,
                    predCalls, cbCalls, printCalls, lastCall, sinceNil,
                    lateTask, anyFailed >>

\* Line 214: chDone <- struct{}{} after the loop was left.
Exit(w) ==
    /\ pc[w] = "exit"
    /\ chDone < workers
    /\ chDone' = chDone + 1
    /\ pc' = [pc EXCEPT ![w] = "exited"]
    /\ UNCHANGED << c, workers, callVars, pulled, cur, found, ctxErr, mainVars, ch, done, tasks, dlCount,
                    dlTotal, gerr, sinceLast, u, err, senders, histVars >>

(***************************************************************************)
(* An enqueue goroutine, lines 180-209: one send of its loops.             *)
(***************************************************************************)
Enqueue ==
    /\ Len(ch) < workers
    /\ \E s \in BagToSet(senders) :
          /\ ch' = Append(ch, Head(s))
          /\ senders' = IF Len(s) = 1
                        THEN senders (-) SetToBag({s})
                        ELSE (senders (-) SetToBag({s})) (+) SetToBag({Tail(s)})
    /\ UNCHANGED << c, workers, callVars, pulled, cur, found, ctxErr, mainVars, chDone, done, tasks,
                    dlCount, dlTotal, gerr, sinceLast, pc, u, err, histVars >>

(***************************************************************************)
(* The environment: the caller cancels the context, time passes.           *)
(***************************************************************************)
Cancel ==
    /\ ctxErr = "nil"
    /\ mainpc # "returned"
    /\ ctxErr' = "canceled"
    /\ UNCHANGED << c, workers, callVars, pulled, cur, found, mainVars, ch, chDone, done, tasks, dlCount,
                    dlTotal, gerr, sinceLast, pc, u, err, senders, histVars >>

\* One clock tick passes.
Tick ==
    /\ sinceLast < Elapsed
    /\ sinceLast' = sinceLast + 1
    /\ sinceNil' = IF sinceNil < Elapsed THEN sinceNil + 1 ELSE sinceNil
    /\ UNCHANGED << c, workers, callVars, pulled, cur, found, ctxErr, mainVars, ch, chDone, done, tasks,
                    dlCount, dlTotal, gerr, pc, u, err, senders, fetched,
                    predCalls, cbCalls, printCalls, lastCall, emitted, lateTask,
                    anyFailed >>

Next ==
    \/ ParseSeeds
    \/ Seed
    \/ RecvDone
    \/ Timer
    \/ \E w \in Workers : Pull(w)
    \/ \E w \in Workers : Check(w)
    \/ \E w \in Workers : ReadCheck(w)
    \/ \E w \in Workers : WriteCheck(w)
    \/ \E w \in Workers : StartDownload(w)
    \/ \E w \in Workers : StartPage(w)
    \/ \E w \in Workers : FinishDownload(w)
    \/ \E w \in Workers : FinishPage(w)
    \/ \E w \in Workers : AddTasks(w)
    \/ \E w \in Workers : AddTotal(w)
    \/ \E w \in Workers : Spawn(w)
    \/ \E w \in Workers : Progress(w)
    \/ \E w \in Workers : ReadCurrent(w)
    \/ \E w \in Workers : Emit(w)
    \/ \E w \in Workers : DoDone(w)
    \/ \E w \in Workers : Exit(w)
    \/ Enqueue
    \/ Cancel
    \/ Tick

Spec == Init /\ [][Next]_vars

(***************************************************************************)
(* Runs whose seeds parse, under the scheduler's fairness: as long as some *)
(* goroutine can take a step or the timer can end the run, one of them     *)
(* does.  Cancellation and the passing of time are left to the environment.*)
(***************************************************************************)
Run ==
    \/ ParseSeeds
    \/ Seed
    \/ RecvDone
    \/ Timer
    \/ \E w \in Workers :
          \/ Pull(w) \/ Check(w) \/ ReadCheck(w) \/ WriteCheck(w)
          \/ StartDownload(w) \/ StartPage(w) \/ FinishDownload(w)
          \/ FinishPage(w) \/ AddTasks(w) \/ AddTotal(w) \/ Spawn(w)
          \/ Progress(w) \/ ReadCurrent(w) \/ Emit(w) \/ DoDone(w) \/ Exit(w)
    \/ Enqueue

LiveInit == Init /\ ~SeedsError(c.URLs)

LiveSpec == LiveInit /\ [][Next]_vars /\ WF_vars(Run)

(***************************************************************************)
(* Derived notions.                                                        *)
(***************************************************************************)
RECURSIVE BagLen(_)
\* Number of tasks the enqueue goroutines in bag b have still to send.
BagLen(b) ==
    IF BagToSet(b) = {} THEN 0
    ELSE LET s == CHOOSE x \in BagToSet(b) : TRUE
         IN  Len(s) + BagLen(b (-) SetToBag({s}))

\* Tasks not yet sent by the seeding loop.
SeedsLeft == IF mainpc = "seed" THEN Len(c.URLs) - seedIx + 1 ELSE 0

\* Workers that hold a task they have not counted as done.
Holding == {w \in Workers : u[w] # NoTask}

RECURSIVE Unspawned(_)
\* Children already added to the counter whose enqueue goroutine is not
\* started yet, over the workers in ws.
Unspawned(ws) ==
    IF ws = {} THEN 0
    ELSE LET w == CHOOSE x \in ws : TRUE
         IN  (IF pc[w] \in {"addtotal", "spawn"} THEN Len(Children(u[w])) ELSE 0)
             + Unspawned(ws \ {w})

\* Tasks queued, waiting to be enqueued or being processed.
Outstanding ==
    Len(ch) + BagLen(senders) + Unspawned(Workers) + SeedsLeft
        + Cardinality(Holding)

Started == mainpc \in {"seed", "wait"} \/ (mainpc = "returned" /\ ret # "parseErr")

\* The enqueue goroutines started for the page at url.
SendersOf(url) ==
    {s \in BagToSet(senders) : \E i \in 1..Len(s) : s[i].Ref[1].URL = url}

(***************************************************************************)
(* C1: in one call of Recurse no URL string is fetched more than once,     *)
(* whatever the interleaving of the workers and however often the URL is   *)
(* discovered or listed as a seed.                                         *)
(***************************************************************************)
C1_FetchedAtMostOnce == \A x \in URLStrings : fetched[x] <= 1

\* A worker passed the read-locked check and finds, under the write lock,
\* that another task for the same URL was marked and fetched meanwhile.
C1_Witness ==
    \E w \in Workers :
        /\ pc[w] = "wlock"
        /\ u[w].URL \in done
        /\ fetched[u[w].URL] = 1

(***************************************************************************)
(* C2: if the context is never cancelled, the outstanding-task counter     *)
(* eventually reaches zero and Recurse returns nil, with nothing left      *)
(* queued, waiting to be enqueued or in a worker's hands.                  *)
(***************************************************************************)
C2_TerminatesWithNil ==
    <>(\/ ctxErr # "nil"
       \/ /\ mainpc = "returned"
          /\ ret = "nil"
          /\ tasks = 0
          /\ Outstanding = 0)

\* A run over the self-linking site, with a duplicated seed, has returned nil.
C2_Witness ==
    /\ mainpc = "returned"
    /\ ret = "nil"
    /\ ctxErr = "nil"
    /\ tasks = 0
    /\ c.Site = SiteCycle
    /\ fetched["a:"] = 1

(***************************************************************************)
(* C3: once the context is cancelled during a run (tasks are still         *)
(* outstanding), Recurse eventually returns and the value it returns is    *)
(* the cancellation error.                                                 *)
(***************************************************************************)
C3_CancelReturnsError ==
    (ctxErr # "nil" /\ Started /\ mainpc # "returned" /\ tasks # 0)
        ~> (mainpc = "returned" /\ ret = "canceled")

(***************************************************************************)
(* C4: a task pulled after the context was cancelled, or after the run     *)
(* error was recorded, is never marked visited, fetched or handed to a     *)
(* callback: its worker only checks and leaves the loop.                   *)
(***************************************************************************)
C4_LateTaskNotProcessed ==
    \A w \in Workers : lateTask[w] => pc[w] \in {"check", "exit", "exited"}

C4_Witness ==
    \E w \in Workers :
        /\ lateTask[w]
        /\ pc[w] = "exited"
        /\ u[w].URL \notin done

(***************************************************************************)
(* C5: a task that ended in an error has caused exactly one call of        *)
(* Progress carrying that error by the time it is counted as done.         *)
(***************************************************************************)
C5_ErrorReportedOnce ==
    \A w \in Workers : (pc[w] = "dodone" /\ err[w] # "nil") => emitted[w] = 1

(***************************************************************************)
(* C6: per-task errors are not fatal.  A failed task spawns no children    *)
(* and is counted down exactly once (the counter always equals the number  *)
(* of tasks queued, waiting or held); Recurse returns only nil, the seed   *)
(* parse error or the context's error; without cancellation it returns nil *)
(* with every task processed.                                              *)
(***************************************************************************)
C6_TaskErrorsNotFatal ==
    /\ Started => tasks = Outstanding
    /\ \A w \in Workers :
          (err[w] # "nil" /\ ~u[w].Download) => SendersOf(u[w].URL) = {}
    /\ ret \in {"none", "nil", "parseErr"} \cup ({ctxErr} \ {"nil"})
    /\ (mainpc = "returned" /\ ret # "parseErr" /\ ctxErr = "nil")
          => (ret = "nil" /\ Outstanding = 0)

\* A run in which a task failed returned nil without cancellation.
C6_Witness ==
    /\ mainpc = "returned"
    /\ anyFailed
    /\ ctxErr = "nil"
    /\ ret = "nil"

(***************************************************************************)
(* C7: with a malformed seed at any position Recurse returns the parse     *)
(* error before any work: no worker runs, nothing is fetched or marked     *)
(* visited and no callback is called.                                      *)
(***************************************************************************)
C7_MalformedSeedAborts ==
    /\ ((\E i \in 1..Len(c.URLs) : c.URLs[i] = Malformed) /\ mainpc # "start")
          => (mainpc = "returned" /\ ret = "parseErr")
    /\ ret = "parseErr" =>
          /\ \A w \in Workers : pc[w] = "off"
          /\ done = {}
          /\ ch = <<>>
          /\ \A x \in URLStrings :
                fetched[x] = 0 /\ predCalls[x] = 0 /\ cbCalls[x] = 0
          /\ printCalls = 0
          /\ lastCall = NoCall

\* The parse error was returned for a seed list whose first seed is fine.
C7_Witness ==
    /\ ret = "parseErr"
    /\ c.URLs[1] # Malformed

(***************************************************************************)
(* C8: the outstanding-task counter never wraps below zero (read as a      *)
(* signed number it is never negative), it is zero only when no task is    *)
(* queued, waiting to be enqueued or being processed, and once zero it is  *)
(* never incremented again.                                                *)
(***************************************************************************)
C8_CounterZeroOnlyAtCompletion ==
    /\ [](Started => (tasks < CounterMod \div 2 /\ (tasks = 0 => Outstanding = 0)))
    /\ [][(Started /\ tasks = 0) => tasks' = 0]_vars

\* The counter is back at zero after children were discovered.
C8_Witness ==
    /\ Started
    /\ tasks = 0
    /\ dlTotal > Len(c.URLs)

(***************************************************************************)
(* C9: two calls of Progress with a nil error, neither the final report,   *)
(* are never less than ProgressInterval apart.                             *)
(***************************************************************************)
C9_RateLimited ==
    (lastCall.err = "nil" /\ ~lastCall.final) => lastCall.gap >= ProgressInterval

(***************************************************************************)
(* net/url as HREF uses it.  A string is a sequence of tokens: each of     *)
(* the delimiters ":" "/" "?" "#" is a token, and so is every maximal run  *)
(* of other characters (a word).                                           *)
(***************************************************************************)
\* Words made of scheme characters only, starting with a letter.
SchemeWords == {"http", "https", "HTTPS", "ftp", "a.com", "b.com", "x", "y", "z", "p", "f"}

\* strings.ToLower on the words used.
ToLower(w) == IF w = "HTTPS" THEN "https" ELSE w

\* strings.Index: position of the first token t in s, 0 when absent.
Index(s, t) ==
    IF \E i \in 1..Len(s) : s[i] = t
    THEN CHOOSE i \in 1..Len(s) : s[i] = t /\ \A j \in 1..(i - 1) : s[j] # t
    ELSE 0

\* strings.LastIndex
LastIndex(s, t) ==
    IF \E i \in 1..Len(s) : s[i] = t
    THEN CHOOSE i \in 1..Len(s) : s[i] = t /\ \A j \in (i + 1)..Len(s) : s[j] # t
    ELSE 0

\* strings.Cut: the parts before and after the first t.
CutBefore(s, t) == IF Index(s, t) = 0 THEN s ELSE SubSeq(s, 1, Index(s, t) - 1)
CutAfter(s, t) == IF Index(s, t) = 0 THEN <<>> ELSE SubSeq(s, Index(s, t) + 1, Len(s))

\* strings.HasPrefix
HasPrefix(s, pre) == Len(s) >= Len(pre) /\ SubSeq(s, 1, Len(pre)) = pre

\* strings.Count for a single token.
Count(s, t) == Cardinality({i \in 1..Len(s) : s[i] = t})

NoURL == [Scheme |-> "", Opaque |-> <<>>, Host |-> <<>>, Path |-> <<>>,
          ForceQuery |-> FALSE, RawQuery |-> <<>>, Fragment |-> <<>>,
          OmitHost |-> FALSE]

\* getScheme: [err, scheme, rest]
GetScheme(s) ==
    IF Len(s) = 0 THEN [err |-> FALSE, scheme |-> "", rest |-> s]
    ELSE IF s[1] = ":" THEN [err |-> TRUE, scheme |-> "", rest |-> <<>>]
    ELSE IF s[1] \in SchemeWords /\ Len(s) >= 2 /\ s[2] = ":"
    THEN [err |-> FALSE, scheme |-> s[1], rest |-> SubSeq(s, 3, Len(s))]
    ELSE [err |-> FALSE, scheme |-> "", rest |-> s]

\* parseHost: a colon in the authority must be followed by a port (digits)
\* or by nothing; no word used here is a number.
ValidAuthority(a) == LastIndex(a, ":") \in {0, Len(a)}

\* url.Parse without the fragment: parse(rawURL, false)
ParseNoFragment(s) ==
    LET sch == GetScheme(s)
        force == Len(sch.rest) > 0 /\ sch.rest[Len(sch.rest)] = "?"
                    /\ Count(sch.rest, "?") = 1
        rest == IF force THEN SubSeq(sch.rest, 1, Len(sch.rest) - 1)
                ELSE CutBefore(sch.rest, "?")
        query == IF force THEN <<>> ELSE CutAfter(sch.rest, "?")
        scheme == ToLower(sch.scheme)
        hasAuth == (scheme # "" \/ ~HasPrefix(rest, <<"/", "/", "/">>))
                      /\ HasPrefix(rest, <<"/", "/">>)
        afterSlashes == SubSeq(rest, 3, Len(rest))
        authority == CutBefore(afterSlashes, "/")
        path == IF hasAuth
                THEN SubSeq(afterSlashes, Len(authority) + 1, Len(afterSlashes))
                ELSE rest
        base == [NoURL EXCEPT !.Scheme = scheme, !.ForceQuery = force,
                              !.RawQuery = query]
    IN  IF sch.err THEN [err |-> TRUE, url |-> NoURL]
        ELSE IF ~HasPrefix(rest, <<"/">>) /\ scheme # ""
        THEN [err |-> FALSE, url |-> [base EXCEPT !.Opaque = rest]]
        ELSE IF ~HasPrefix(rest, <<"/">>) /\ Index(CutBefore(rest, "/"), ":") # 0
        THEN [err |-> TRUE, url |-> NoURL]
        ELSE IF hasAuth /\ ~ValidAuthority(authority)
        THEN [err |-> TRUE, url |-> NoURL]
        ELSE [err |-> FALSE,
              url |-> [base EXCEPT !.Host = IF hasAuth THEN authority ELSE <<>>,
                                   !.Path = path,
                                   !.OmitHost = ~hasAuth /\ scheme # ""
                                                   /\ HasPrefix(rest, <<"/">>)]]

\* unescape / escape of a fragment: only "#" needs escaping among the tokens.
UnescapeFragment(f) == [i \in 1..Len(f) |-> IF f[i] = "%23" THEN "#" ELSE f[i]]
EscapedFragment(f) == [i \in 1..Len(f) |-> IF f[i] = "#" THEN "%23" ELSE f[i]]

\* url.Parse
UrlParse(s) ==
    LET r == ParseNoFragment(CutBefore(s, "#"))
    IN  IF r.err THEN r
        ELSE [err |-> FALSE,
              url |-> [r.url EXCEPT !.Fragment = UnescapeFragment(CutAfter(s, "#"))]]

\* (*URL).String
URLString(v) ==
    LET scheme == IF v.Scheme # "" THEN <<v.Scheme, ":">> ELSE <<>>
        slashes == IF (v.Scheme # "" \/ v.Host # <<>>)
                        /\ ~(v.OmitHost /\ v.Host = <<>>)
                        /\ (v.Host # <<>> \/ v.Path # <<>>)
                   THEN <<"/", "/">> ELSE <<>>
        sep == IF v.Path # <<>> /\ v.Path[1] # "/" /\ v.Host # <<>>
               THEN <<"/">> ELSE <<>>
        dot == IF scheme = <<>> /\ slashes = <<>> /\ v.Host = <<>>
                    /\ Index(CutBefore(v.Path, "/"), ":") # 0
               THEN <<".", "/">> ELSE <<>>
        hier == IF v.Opaque # <<>> THEN v.Opaque
                ELSE slashes \o v.Host \o sep \o dot \o v.Path
        query == IF v.ForceQuery \/ v.RawQuery # <<>>
                 THEN <<"?">> \o v.RawQuery ELSE <<>>
        frag == IF v.Fragment # <<>>
                THEN <<"#">> \o EscapedFragment(v.Fragment) ELSE <<>>
    IN  scheme \o hier \o query \o frag

(***************************************************************************)
(* HREF (the resolver): the URL a reference found on a page stands for.    *)
(***************************************************************************)
\* absURLRE: ^https?:
AbsURL(href) == Len(href) >= 2 /\ href[1] \in {"http", "https"} /\ href[2] = ":"

\* HREF(page, href), page being a parsed URL: [err, url]
HREF(page, href) ==
    IF Len(href) = 0 THEN [err |-> FALSE, url |-> page]
    ELSE IF AbsURL(href) \/ HasPrefix(href, <<"/", "/">>)
    THEN LET r == UrlParse(href)
         IN  IF r.err THEN r
             ELSE IF r.url.Scheme = ""
             THEN [err |-> FALSE, url |-> [r.url EXCEPT !.Scheme = page.Scheme]]
             ELSE r
    ELSE IF href[1] = "/"
    THEN UrlParse(URLString([page EXCEPT !.Path = <<>>, !.RawQuery = <<>>]) \o href)
    ELSE UrlParse(URLString([page EXCEPT !.RawQuery = <<>>]) \o <<"/">> \o href)

(***************************************************************************)
(* Calls of HREF on bounded inputs.                                        *)
(***************************************************************************)
\* The page URLs HREF is called with, as the strings they were parsed from.
PageStrings ==
    { <<"https", ":", "/", "/", "a.com">>,
      <<"https", ":", "/", "/", "a.com", "/", "x", "/", "y">>,
      <<"https", ":", "/", "/", "a.com", "/", "x", "/">>,
      <<"http", ":", "/", "/", "a.com", "/", "x", "/", "y", "?", "q=1">>,
      <<"https", ":", "/", "/", "a.com", "/", "x", "#", "f">> }

RefTokens == {"/", ":", "?", "#", "z"}

RECURSIVE TokenSeqs(_)
\* The token sequences of length n over RefTokens.
TokenSeqs(n) ==
    IF n = 0 THEN { <<>> }
    ELSE {Append(r, t) : r \in TokenSeqs(n - 1), t \in RefTokens}

\* The references HREF is called with: every string of at most MaxRefLen
\* tokens without two adjacent words, and some absolute references.
RefStrings ==
    { r \in UNION {TokenSeqs(n) : n \in 0..MaxRefLen} :
        \A i \in 1..(Len(r) - 1) : ~(r[i] = "z" /\ r[i + 1] = "z") }
    \cup
    { <<"https", ":", "/", "/", "b.com", "/", "p">>,
      <<"http", ":", "/", "/", "b.com">>,
      <<"/", "/", "b.com", "/", "p">>,
      <<"ftp", ":", "/", "/", "b.com", "/", "p">>,
      <<"HTTPS", ":", "/", "/", "b.com">> }

InitHREF ==
    /\ InitRecurse
    /\ c.URLs = <<>>
    /\ hrefCall \in {[NoHREF EXCEPT !.page = p, !.href = r] :
                        p \in PageStrings, r \in RefStrings}
    /\ selCall = NoSelCall
    /\ pageCall = NoPageCall

\* One call HREF(page, href); out is the String() of the URL returned.
CallHREF ==
    /\ ~hrefCall.called
    /\ LET r == HREF(UrlParse(hrefCall.page).url, hrefCall.href)
       IN  hrefCall' = [hrefCall EXCEPT !.called = TRUE, !.err = r.err,
                                        !.out = IF r.err THEN <<>> ELSE URLString(r.url)]
    /\ UNCHANGED << recurseVars, selCall, pageCall >>

NextHREF == CallHREF

SpecHREF == InitHREF /\ [][NextHREF]_vars

\* The directory of a path: everything up to and including its last "/".
Dir(path) == SubSeq(path, 1, LastIndex(path, "/"))

(***************************************************************************)
(* C10: HREF resolves a relative reference (one word: not empty, not       *)
(* absolute, not starting with "/") against the directory of the page's    *)
(* path, as HREF("https://a.com/x/y", "z") = "https://a.com/x/z".          *)
(***************************************************************************)
C10_RelativeToDirectory ==
    LET page == UrlParse(hrefCall.page).url
    IN  (/\ hrefCall.called
         /\ hrefCall.href = <<"z">>
         /\ page.Path # <<>>
         /\ page.RawQuery = <<>>
         /\ page.Fragment = <<>>)
        => (/\ ~hrefCall.err
            /\ hrefCall.out = URLString([page EXCEPT !.Path = Dir(page.Path) \o <<"z">>]))

(***************************************************************************)
(* C11: HREF is the resolver of section 4.1: an empty reference gives the  *)
(* page's URL unchanged; a reference starting with "scheme:" (any scheme)  *)
(* or with "//" is parsed as its own URL and inherits the page's scheme    *)
(* when it has none; a reference starting with "/" gives the page's        *)
(* origin (scheme and host, path and query removed) followed by the        *)
(* reference.                                                              *)
(***************************************************************************)
C11_ResolverBranches ==
    LET page == UrlParse(hrefCall.page).url
        href == hrefCall.href
        own == UrlParse(href)
        origin == <<page.Scheme, ":", "/", "/">> \o page.Host
        rooted == UrlParse(origin \o href)
        hasScheme == Len(href) >= 2 /\ href[1] \in SchemeWords /\ href[2] = ":"
    IN  hrefCall.called =>
          /\ href = <<>> =>
                (~hrefCall.err /\ hrefCall.out = URLString(page))
          /\ (hasScheme \/ HasPrefix(href, <<"/", "/">>)) =>
                /\ hrefCall.err = own.err
                /\ ~own.err => hrefCall.out =
                      URLString(IF own.url.Scheme = ""
                                THEN [own.url EXCEPT !.Scheme = page.Scheme]
                                ELSE own.url)
          /\ (href # <<>> /\ href[1] = "/" /\ ~HasPrefix(href, <<"/", "/">>)) =>
                /\ hrefCall.err = rooted.err
                /\ ~rooted.err => hrefCall.out = URLString(rooted.url)

(***************************************************************************)
(* Selectors (web/selector.go).  A string is a sequence of characters;     *)
(* a run of characters that are neither "," " " "[" nor "]" may be written *)
(* as one element (a word such as "href" or "div>a").                      *)
(***************************************************************************)
\* \s of commaRE and the white space of strings.TrimSpace.
IsSpace(r) == r = " "

RECURSIVE SkipSpace(_, _)
\* The first position from i on that holds no white space.
SkipSpace(s, i) ==
    IF i <= Len(s) /\ IsSpace(s[i]) THEN SkipSpace(s, i + 1) ELSE i

\* ,\s*, matched at position i: the position of its last character, else 0.
CommaPair(s, i) ==
    IF i <= Len(s) /\ s[i] = ","
    THEN LET j == SkipSpace(s, i + 1)
         IN  IF j <= Len(s) /\ s[j] = "," THEN j ELSE 0
    ELSE 0

RECURSIVE CommaRun(_, _)
\* commaRE, (,\s*,)+ matched greedily at position i: the position of the
\* last character of the match, else 0.
CommaRun(s, i) ==
    LET e == CommaPair(s, i)
    IN  IF e = 0 THEN 0
        ELSE IF CommaRun(s, e + 1) = 0 THEN e ELSE CommaRun(s, e + 1)

RECURSIVE ReplaceCommas(_, _)
\* commaRE.ReplaceAllString(s, ",") from position i on.
ReplaceCommas(s, i) ==
    IF i > Len(s) THEN <<>>
    ELSE IF CommaRun(s, i) # 0
    THEN <<",">> \o ReplaceCommas(s, CommaRun(s, i) + 1)
    ELSE <<s[i]>> \o ReplaceCommas(s, i + 1)

RECURSIVE Split(_, _)
\* strings.Split(s, sep) for a one-character sep.
Split(s, sep) ==
    IF Index(s, sep) = 0 THEN <<s>>
    ELSE <<CutBefore(s, sep)>> \o Split(CutAfter(s, sep), sep)

RECURSIVE TrimSpace(_)
\* strings.TrimSpace
TrimSpace(s) ==
    IF Len(s) > 0 /\ IsSpace(s[1]) THEN TrimSpace(Tail(s))
    ELSE IF Len(s) > 0 /\ IsSpace(s[Len(s)]) THEN TrimSpace(SubSeq(s, 1, Len(s) - 1))
    ELSE s

\* attrRE, \[([^\]]+)\]$: the positions of a "[" from which the rest of s
\* is one or more characters other than "]" followed by a final "]".
AttrMatches(s) ==
    {i \in 1..Len(s) : /\ s[i] = "["
                       /\ Len(s) >= i + 2
                       /\ s[Len(s)] = "]"
                       /\ \A k \in (i + 1)..(Len(s) - 1) : s[k] # "]"}

\* newSelector: FindStringSubmatch returns the leftmost match.
newSelector(s) ==
    IF AttrMatches(s) = {} THEN [Query |-> s, Attr |-> <<>>]
    ELSE LET i == CHOOSE i \in AttrMatches(s) : \A j \in AttrMatches(s) : i <= j
         IN  [Query |-> SubSeq(s, 1, i - 1), Attr |-> SubSeq(s, i + 1, Len(s) - 1)]

RECURSIVE SelectorsOf(_)
\* The loop of NewSelector over the pieces sp.
SelectorsOf(sp) ==
    IF sp = <<>> THEN <<>>
    ELSE IF TrimSpace(Head(sp)) = <<>> THEN SelectorsOf(Tail(sp))
    ELSE <<newSelector(TrimSpace(Head(sp)))>> \o SelectorsOf(Tail(sp))

NewSelector(s) == SelectorsOf(Split(ReplaceCommas(s, 1), ","))

RECURSIVE NewSelectors(_)
NewSelectors(s) ==
    IF s = <<>> THEN <<>> ELSE NewSelector(Head(s)) \o NewSelectors(Tail(s))

(***************************************************************************)
(* Calls of NewSelectors on bounded inputs.                                *)
(***************************************************************************)
SelChars == {"a", "=", ",", " ", "[", "]"}

RECURSIVE CharSeqs(_)
\* The strings of n characters of SelChars.
CharSeqs(n) ==
    IF n = 0 THEN { <<>> }
    ELSE {Append(r, t) : r \in CharSeqs(n - 1), t \in SelChars}

\* The examples of the README and of section 4.2.
SelExamples ==
    { <<"div>a", "[", "href", "]">>,
      <<"a", ",", " ", ",", " ", "b">>,
      <<"a", "[", "href", "=", "^x", "]", "[", "href", "]">>,
      <<"div>a>h3", ",", "div>a:has(h3)", "[", "href", "]">> }

SelStrings == UNION {CharSeqs(n) : n \in 0..MaxSelLen} \cup SelExamples

\* The arguments of NewSelectors: one raw string, or two of the examples.
SelInputs ==
    {<<x>> : x \in SelStrings} \cup {<<x, y>> : x \in SelExamples, y \in SelExamples}

InitSelector ==
    /\ InitRecurse
    /\ c.URLs = <<>>
    /\ hrefCall = NoHREF
    /\ selCall \in {[NoSelCall EXCEPT !.s = l] : l \in SelInputs}
    /\ pageCall = NoPageCall

\* One call NewSelectors(s).
CallNewSelectors ==
    /\ ~selCall.called
    /\ selCall' = [selCall EXCEPT !.called = TRUE, !.out = NewSelectors(selCall.s)]
    /\ UNCHANGED << recurseVars, hrefCall, pageCall >>

NextSelector == CallNewSelectors

SpecSelector == InitSelector /\ [][NextSelector]_vars

\* Words that are identifiers (attribute names).
Identifiers == {"a", "b", "href"}

RECURSIVE Flatten(_)
\* The concatenation of a sequence of sequences.
Flatten(ss) == IF ss = <<>> THEN <<>> ELSE Head(ss) \o Flatten(Tail(ss))

(***************************************************************************)
(* C12: NewSelector splits the raw string on commas, trims each piece,     *)
(* drops the empty pieces and keeps the order of the rest; of each clause  *)
(* only a trailing "[identifier]" is the attribute and is stripped from    *)
(* the query, everything before it staying in the query; NewSelectors is   *)
(* the concatenation, in order, of NewSelector over its inputs.            *)
(***************************************************************************)
C12_SelectorParsing ==
    LET NonEmpty(x) == x # <<>>
        Clause(q) ==
            IF /\ Len(q) >= 3
               /\ q[Len(q) - 2] = "["
               /\ q[Len(q) - 1] \in Identifiers
               /\ q[Len(q)] = "]"
            THEN [Query |-> SubSeq(q, 1, Len(q) - 3), Attr |-> <<q[Len(q) - 1]>>]
            ELSE [Query |-> q, Attr |-> <<>>]
        Clauses(raw) ==
            LET sp == Split(raw, ",")
                kept == SelectSeq([i \in 1..Len(sp) |-> TrimSpace(sp[i])], NonEmpty)
            IN  [i \in 1..Len(kept) |-> Clause(kept[i])]
    IN  selCall.called =>
            selCall.out = Flatten([i \in 1..Len(selCall.s) |-> Clauses(selCall.s[i])])

(***************************************************************************)
(* The print table of Web.page.  matches[qix] lists, in document order,    *)
(* the elements print clause qix selects; an element is [ok, val]: ok      *)
(* when the clause has no attribute (val is the text) or the element has   *)
(* the attribute (val is its value).  Rows and columns count from 1.       *)
(***************************************************************************)
Matches == {[ok |-> TRUE, val |-> "v"], [ok |-> TRUE, val |-> "w"],
            [ok |-> FALSE, val |-> ""]}

\* make([]string, n)
EmptyRow(n) == [i \in 1..n |-> ""]

\* A row is appended for every value.
NeedsRowAlways(rows, entry) == TRUE

\* len(p.Prints) < entries[qix]
NeedsRow(rows, entry) == rows < entry

\* The callback given to qry(s.Prints, ...): st is [entries, Prints].
AddPrint(st, qix, data, n) ==
    LET entry == st.entries[qix] + 1
        rows == IF NeedsRow(Len(st.Prints), entry)
                THEN Append(st.Prints, EmptyRow(n)) ELSE st.Prints
    IN  [entries |-> [st.entries EXCEPT ![qix] = entry],
         Prints |-> [rows EXCEPT ![entry][qix] = data]]

RECURSIVE EachMatch(_, _, _, _)
\* doc.Find(qry.Query).Each(...) for print clause qix.
EachMatch(st, qix, sel, n) ==
    IF sel = <<>> THEN st
    ELSE EachMatch(IF Head(sel).ok THEN AddPrint(st, qix, Head(sel).val, n) ELSE st,
                   qix, Tail(sel), n)

RECURSIVE QryPrints(_, _, _)
\* qry(s.Prints, ...): the clauses from qix on, in order.
QryPrints(st, qix, matches) ==
    IF qix > Len(matches) THEN st
    ELSE QryPrints(EachMatch(st, qix, matches[qix], Len(matches)), qix + 1, matches)

\* p.Prints as Web.page returns it.
PagePrints(matches) ==
    QryPrints([entries |-> [i \in 1..Len(matches) |-> 0], Prints |-> <<>>],
              1, matches).Prints

(***************************************************************************)
(* Calls of Web.page on bounded documents.                                 *)
(***************************************************************************)
RECURSIVE MatchSeqs(_)
\* The sequences of n elements.
MatchSeqs(n) ==
    IF n = 0 THEN { <<>> }
    ELSE {Append(r, t) : r \in MatchSeqs(n - 1), t \in Matches}

\* What one print clause can select: at most MaxMatches elements.
ClauseMatches == UNION {MatchSeqs(k) : k \in 0..MaxMatches}

InitPage ==
    /\ InitRecurse
    /\ c.URLs = <<>>
    /\ hrefCall = NoHREF
    /\ selCall = NoSelCall
    /\ \E n \in 0..MaxClauses :
          \E m \in [1..n -> ClauseMatches] :
              pageCall = [NoPageCall EXCEPT !.matches = m]

\* One call of Web.page, as far as p.Prints goes.
CallPage ==
    /\ ~pageCall.called
    /\ pageCall' = [pageCall EXCEPT !.called = TRUE,
                                    !.Prints = PagePrints(pageCall.matches)]
    /\ UNCHANGED << recurseVars, hrefCall, selCall >>

NextPage == CallPage

SpecPage == InitPage /\ [][NextPage]_vars

\* The values print clause i produces: the values of its ok elements.
ValuesOf(i) ==
    LET Ok(e) == e.ok
        sel == SelectSeq(pageCall.matches[i], Ok)
    IN  [k \in 1..Len(sel) |-> sel[k].val]

(***************************************************************************)
(* C13: the print table is zipped by position: the k-th value of print     *)
(* clause i is in row k, column i; there are as many rows as the largest   *)
(* number of values any clause produced; every row has one column per      *)
(* print clause; cells never written are empty.                            *)
(***************************************************************************)
C13_PrintTableZipped ==
    LET n == Len(pageCall.matches)
        t == pageCall.Prints
    IN  pageCall.called =>
          /\ \A i \in 1..n : Len(ValuesOf(i)) <= Len(t)
          /\ n > 0 => \E i \in 1..n : Len(ValuesOf(i)) = Len(t)
          /\ n = 0 => t = <<>>
          /\ \A k \in 1..Len(t) :
                /\ Len(t[k]) = n
                /\ \A i \in 1..n :
                      t[k][i] = IF k <= Len(ValuesOf(i)) THEN ValuesOf(i)[k] ELSE ""

\* Clause 1 produced 3 values and clause 2 one: 3 rows, the first full,
\* the others with column 2 empty.
C13_Witness ==
    /\ pageCall.called
    /\ Len(pageCall.matches) = 2
    /\ Len(ValuesOf(1)) = 3
    /\ Len(ValuesOf(2)) = 1
    /\ Len(pageCall.Prints) = 3
    /\ pageCall.Prints[1][2] # ""
    /\ pageCall.Prints[2][2] = ""
    /\ pageCall.Prints[3][2] = ""

\* The children of the page task (x, idx) as a page with N downloads and M
\* links is to hand them on: downloads first, then links, in the order of
\* discovery, indexed i or, reversed, N-1-i (M-1-i), i counting from 0.
ChildrenInOrder(x, idx) ==
    LET p == c.Site[x]
        N == Len(p.Downloads)
        M == Len(p.Links)
        ref == << [URL |-> x, Index |-> idx] >>
    IN  [j \in 1..(N + M) |->
            IF j <= N
            THEN [URL |-> p.Downloads[j], Download |-> TRUE, Ref |-> ref,
                  Index |-> IF c.ReverseDownloads THEN N - 1 - (j - 1) ELSE j - 1]
            ELSE [URL |-> p.Links[j - N], Download |-> FALSE, Ref |-> ref,
                  Index |-> IF c.ReverseLinks THEN M - 1 - (j - N - 1) ELSE j - N - 1]]

\* The children list of the page task t was discovered on.
SiblingsOf(t) == ChildrenInOrder(t.Ref[1].URL, t.Ref[1].Index)

\* The positions of task t among its siblings.
PlacesOf(t) == {j \in 1..Len(SiblingsOf(t)) : SiblingsOf(t)[j] = t}

\* s is what is left of e after its first Len(e) - Len(s) elements.
IsSuffix(s, e) == Len(s) <= Len(e) /\ s = SubSeq(e, Len(e) - Len(s) + 1, Len(e))

DownloadDispatched(w) ==
    pc[w] = "dispatch" /\ u[w].Download /\ pc'[w] # "dispatch"

\* The counter after one decrement.
OneLess(x) == (x + CounterMod - 1) % CounterMod

\* What C15 says beyond the consulting of the predicate: a download is
\* fetched only with both callbacks set and after the predicate was asked;
\* DownloadCallback is called at most once per URL, by a worker fetching a
\* download task whose predicate was asked; the task counts down once, when
\* it is dropped or when it is done, and not in between.
DownloadOutcome ==
    /\ \A w \in Workers :
          /\ DownloadDispatched(w) =>
                \/ /\ pc'[w] = "fetching"
                   /\ c.Download /\ c.DownloadCallback
                   /\ predCalls'[u[w].URL] = predCalls[u[w].URL] + 1
                   /\ fetched'[u[w].URL] = fetched[u[w].URL] + 1
                   /\ tasks' = tasks
                \/ /\ pc'[w] = "recv"
                   /\ fetched' = fetched
                   /\ tasks' = OneLess(tasks)
          /\ (u[w].Download /\ pc[w] \in {"fetching", "progress", "emit", "call"}
                /\ pc'[w] # pc[w]) => tasks' = tasks
          /\ (u[w].Download /\ pc[w] = "dodone" /\ pc'[w] # pc[w]) =>
                (pc'[w] = "recv" /\ tasks' = OneLess(tasks))
    /\ \A x \in URLStrings :
          /\ predCalls'[x] <= 1
          /\ cbCalls'[x] # cbCalls[x] =>
                /\ cbCalls[x] = 0 /\ cbCalls'[x] = 1
                /\ predCalls[x] = 1
                /\ \E w \in Workers :
                      pc[w] = "fetching" /\ u[w].Download /\ u[w].URL = x

(***************************************************************************)
(* C15: for every download task that passes the visited check the          *)
(* Download predicate (when there is one) is consulted exactly once; the   *)
(* URL is fetched and handed to DownloadCallback only if the predicate     *)
(* returned true, never with Download or DownloadCallback nil;             *)
(* DownloadCallback is called at most once per URL and never for a page    *)
(* task; the task decrements the outstanding counter exactly once.         *)
(***************************************************************************)
C15_PredicateConsultedOnce ==
    [][/\ \A w \in Workers :
             (DownloadDispatched(w) /\ c.Download) =>
                 predCalls'[u[w].URL] = predCalls[u[w].URL] + 1
       /\ DownloadOutcome]_vars

(***************************************************************************)
(* C15 as amended: the Download predicate is consulted exactly once when   *)
(* both Download and DownloadCallback are set and not at all otherwise;    *)
(* the rest as claimed.                                                    *)
(***************************************************************************)
C15_PredicateConsultedIfConfigured ==
    [][/\ \A w \in Workers :
             DownloadDispatched(w) =>
                 predCalls'[u[w].URL] = predCalls[u[w].URL]
                     + (IF c.Download /\ c.DownloadCallback THEN 1 ELSE 0)
       /\ DownloadOutcome]_vars

\* A download was asked for, fetched and handed to DownloadCallback, another
\* was declined, and the run is over.
C15_Witness ==
    /\ mainpc = "returned"
    /\ tasks = 0
    /\ \E x \in URLStrings : predCalls[x] = 1 /\ fetched[x] = 1 /\ cbCalls[x] = 1
    /\ \E x \in URLStrings : predCalls[x] = 1 /\ fetched[x] = 0

\* Tasks that exist and are not counted in dlCount yet: queued, left to a
\* sender or to the seeding loop, or pulled and before line 135.
NotYetCounted ==
    Len(ch) + BagLen(senders) + SeedsLeft
        + Cardinality({w \in Workers : pc[w] = "check"})

C17_WorkersDrained ==
    (mainpc = "returned" /\ ret = "nil") => \A w \in Workers : pc[w] = "exited"

(***************************************************************************)
(* The accesses to the variables of the run that the next step of a        *)
(* goroutine makes outside sem and without sync/atomic.  Goroutine 0 is    *)
(* the one that called Recurse.                                            *)
(***************************************************************************)
Goroutines == Workers \cup {0}

\* Variables goroutine g is about to write with a plain assignment:
\* gerr = err (line 131), lastProgress = time.Now() (line 119).
PlainWrites(g) ==
    IF g = 0 THEN {}
    ELSE (IF pc[g] = "check" /\ gerr = "nil" /\ ctxErr # "nil" THEN {"gerr"} ELSE {})
         \cup (IF pc[g] = "call" THEN {"lastProgress"} ELSE {})

\* Variables goroutine g is about to read with a plain load: gerr (lines
\* 127, 227, 232), tasks (line 231), lastProgress (line 117), dlCount and
\* dlTotal (line 118).
PlainReads(g) ==
    IF g = 0
    THEN IF mainpc # "wait" THEN {}
         ELSE {"tasks"} \cup (IF tasks = 0 \/ (chDone > 0 /\ cnt = 1)
                              THEN {"gerr"} ELSE {})
    ELSE (IF pc[g] = "check" THEN {"gerr"} ELSE {})
         \cup (IF pc[g] = "progress" /\ err[g] = "nil" THEN {"lastProgress"} ELSE {})
         \cup (IF pc[g] = "emit" THEN {"dlCount"} ELSE {})
         \cup (IF pc[g] = "call" THEN {"dlTotal"} ELSE {})

\* Variables goroutine g is about to update with atomic.AddUint64 (lines
\* 110, 135, 173, 174).
AtomicWrites(g) ==
    IF g = 0 THEN {}
    ELSE (IF pc[g] = "check" /\ gerr = "nil" /\ ctxErr = "nil" THEN {"dlCount"} ELSE {})
         \cup (IF pc[g] = "addtasks" THEN {"tasks"} ELSE {})
         \cup (IF pc[g] = "addtotal" THEN {"dlTotal"} ELSE {})
         \cup (IF pc[g] = "dodone" THEN {"tasks"} ELSE {})

\* Two goroutines are about to access x, one of them writing, and not both
\* through sync/atomic.
Races(x) ==
    \E g, h \in Goroutines :
        /\ g # h
        /\ x \in PlainWrites(g) \cup AtomicWrites(g)
        /\ x \in PlainWrites(h) \cup PlainReads(h)
                    \cup (IF x \in PlainWrites(g) THEN AtomicWrites(h) ELSE {})

(***************************************************************************)
(* C18: no goroutine writes a variable of the run (the recorded run        *)
(* error, the last-progress time, the progress counters, the outstanding   *)
(* counter) while another reads or writes it without synchronization.      *)
(***************************************************************************)
C18_NoUnsynchronizedAccess ==
    \A x \in {"gerr", "lastProgress", "dlCount", "dlTotal", "tasks"} : ~Races(x)

\* N of the configuration: Config.Concurrency, 8 when that is not positive.
PoolSize == IF c.Concurrency <= 0 THEN 8 ELSE c.Concurrency

(***************************************************************************)
(* C19: the pool is fixed and bounded by N = Config.Concurrency (8 when    *)
(* Concurrency <= 0): there are N worker goroutines, so at most N tasks    *)
(* are being processed and at most N fetches are in flight; the task       *)
(* channel never holds more than N tasks, and a task is added to it only   *)
(* when it holds fewer than N.                                             *)
(***************************************************************************)
C19_PoolBounded ==
    /\ [](/\ workers = PoolSize
          /\ DOMAIN pc = 1..PoolSize
          /\ Cardinality(Holding) <= PoolSize
          /\ Cardinality({w \in DOMAIN pc : pc[w] = "fetching"}) <= PoolSize
          /\ Len(ch) <= PoolSize
          /\ chDone <= PoolSize)
    /\ [][Len(ch') > Len(ch) => (Len(ch) < PoolSize /\ Len(ch') = Len(ch) + 1)]_vars

\* The queue is full, every worker is fetching, and the seeding loop has a
\* task it cannot send yet.
C19_Witness ==
    /\ Len(ch) = PoolSize
    /\ SeedsLeft > 0
    /\ \A w \in Workers : pc[w] = "fetching"

(***************************************************************************)
(* C20: once Recurse has returned after its seeds parsed, the most recent  *)
(* call of Progress is the final one, made with a nil error, and no call   *)
(* follows it; when the context was not cancelled that call reports        *)
(* current = total = the number of seeds plus the number of links and      *)
(* downloads of all pages extracted in the run, duplicates included.       *)
(***************************************************************************)
C20_FinalProgress ==
    (mainpc = "returned" /\ ret # "parseErr") =>
        /\ lastCall.final
        /\ lastCall.err = "nil"
        /\ ctxErr = "nil" =>
              /\ lastCall.current = lastCall.total
              /\ lastCall.total = Len(c.URLs) + found

\* An uncancelled run over three seeds, two of them the same URL, whose
\* page lists three children, has ended with the final report 6 of 6.
C20_Witness ==
    /\ mainpc = "returned"
    /\ ret = "nil"
    /\ ctxErr = "nil"
    /\ lastCall.final
    /\ Len(c.URLs) = 3
    /\ found = 3
    /\ lastCall.current = 6

\* The workers processing URL string x: past the marking of line 150 and
\* before the end of the iteration.
Processing(x) ==
    {w \in Workers : /\ u[w].URL = x
                     /\ pc[w] \in {"dispatch", "fetching", "addtasks", "addtotal",
                                   "spawn", "progress", "emit", "call", "dodone"}}

\* The URL strings of tasks that were pulled and have not passed the
\* cancellation check of lines 127-133, or have not reached line 150 yet.
NotYetMarked == {u[w].URL : w \in {v \in Workers : pc[v] \in {"check", "rlock", "wlock"}}}
Abandoned == {u[w].URL : w \in {v \in Workers : pc[v] \in {"exit", "exited"}}} \ {""}

\* What C21 says of the visited set apart from its final size: a URL is
\* marked before its task is processed, whatever the role; it is never
\* removed; it is processed by one task only, and once that task is over,
\* whatever its outcome, the URL is not fetched, asked for or handed to a
\* callback again.
VisitedOnce ==
    /\ [](\A x \in URLStrings :
            /\ Processing(x) # {} => x \in done
            /\ Cardinality(Processing(x)) <= 1
            /\ fetched[x] <= 1
            /\ (fetched[x] > 0 \/ predCalls[x] > 0 \/ cbCalls[x] > 0) => x \in done)
    /\ [][/\ done \subseteq done'
          /\ \A x \in URLStrings :
                (x \in done /\ Processing(x) = {}) =>
                    /\ Processing(x)' = {}
                    /\ fetched'[x] = fetched[x]
                    /\ predCalls'[x] = predCalls[x]
                    /\ cbCalls'[x] = cbCalls[x]]_vars

(***************************************************************************)
(* C21: a URL string is marked visited before its task is processed and    *)
(* is never removed, whatever the outcome and the role; later tasks with   *)
(* the same URL string are skipped without a fetch; the visited set only   *)
(* grows and, when Recurse has returned, its size is the number of         *)
(* distinct URL strings pulled before cancellation.                        *)
(***************************************************************************)
C21_VisitedSizeIsPulled ==
    /\ VisitedOnce
    /\ []((mainpc = "returned" /\ ret # "parseErr") =>
              Cardinality(done) = Cardinality(pulled))

(***************************************************************************)
(* C21 as amended: the same, the size of the visited set when Recurse has  *)
(* returned being the number of distinct URL strings whose task passed     *)
(* the cancellation check: those pulled before cancellation, less those    *)
(* whose task was pulled and then dropped at the check because the         *)
(* context was cancelled in between.                                       *)
(***************************************************************************)
C21_VisitedSizeIsChecked ==
    /\ VisitedOnce
    /\ [](/\ done \subseteq pulled
          /\ pulled \ done \subseteq NotYetMarked \cup Abandoned
          /\ (mainpc = "returned" /\ ret # "parseErr") =>
                /\ NotYetMarked = {}
                /\ done = pulled \ (Abandoned \ done)
                /\ ctxErr = "nil" => done = pulled)

\* A URL was processed as a download that failed or was declined, a later
\* page task with the same URL string was pulled and skipped, and the run
\* is over.
C21_Witness ==
    /\ mainpc = "returned"
    /\ ret = "nil"
    /\ dlCount > Cardinality(done)
    /\ \E x \in done : predCalls[x] = 1 /\ cbCalls[x] = 0 /\ fetched[x] <= 1
    /\ done = pulled

====
